---- MODULE Spec2Model ----
(***************************************************************************)
(* A model of src/main.go: the concurrent fetch / retry / aggregate        *)
(* program.  main seeds one fetch goroutine per identifier, starts one     *)
(* aggregator goroutine that selects over the two unbuffered channels chr  *)
(* (responses) and chn (failed nodes), waits on a sync.WaitGroup and then  *)
(* prints the map of photos.                                               *)
(*                                                                         *)
(* Goroutines are interleaved at their synchronisation points: a channel   *)
(* send/receive pair is one rendezvous step (the channels are unbuffered), *)
(* wg.Add / wg.Done / wg.Wait are atomic steps, and the code a goroutine   *)
(* runs between two such points on data no other goroutine reads is part   *)
(* of the step before it.                                                  *)
(***************************************************************************)
EXTENDS Integers, Sequences, FiniteSets

\* `requests` of main (4500 in the source), reduced to keep the model finite.
Requests == 2

\* The literal 3 of `node.Attempts <= 3`.
RetryLimit == 3

\* ids[i] = i+1 for i in 0..requests-1.
IDs == 1..Requests

\* The keys the map may get: the "id" field of a decoded payload is the
\* server's, not the program's; 0 is what json.Unmarshal leaves in Photo.ID when
\* the payload has no "id" field.
PayloadIDs == {0} \cup IDs

\* A body that is not (yet) read, and one json.Unmarshal rejects.
NoBody == [json |-> "none", ID |-> 0, Title |-> 0]
BadBody == [json |-> "malformed", ID |-> 0, Title |-> 0]

\* A well-formed payload: the photo the server returned for the request for
\* identifier id (Title stands for the fields other than "id").
Photo(k, id) == [json |-> "photo", ID |-> k, Title |-> id]

\* What io.ReadAll may return for a request for id: a body that does not
\* decode, or a photo with any "id".
Bodies(id) == {BadBody} \cup {Photo(k, id) : k \in PayloadIDs}

\* make(map[int]*Photo)
EmptyMap == [k \in {} |-> NoBody]

\* m[key] = value
MapPut(m, key, value) ==
    [k \in DOMAIN m \cup {key} |-> IF k = key THEN value ELSE m[k]]

VARIABLES
    mainpc,     \* position of main: seed, callwait, wait, woken, print, exit, panic
    i,          \* loop variable of the seeding loop
    wg,         \* counter of the WaitGroup
    nodes,      \* the Node objects, by ID: their Attempts field
    workers,    \* the fetch goroutines started so far, by node ID, in spawn order
    aggpc,      \* position of the aggregator goroutine
    res,        \* the aggregator's res.Body
    node,       \* the aggregator's node (the ID of the Node it points to)
    cur,        \* the fetch goroutine whose message the aggregator holds
    photos,     \* the map photos
    reported    \* what print read from photos

vars == <<mainpc, i, wg, nodes, workers, aggpc, res, node, cur, photos, reported>>

\* The process is alive: main has not returned and no goroutine has panicked.
Running == mainpc \notin {"exit", "panic"}

\* Where a goroutine stands after its send: at the wg.Done() that follows a
\* `chn <- node` (lines 52, 60, 70) or at the one of line 80.
AfterSend(pc) == IF pc = "sendN" THEN "doneN" ELSE "done80"

DonePcs == {"doneN", "done80"}

\* A goroutine just started by `go fetch(...)`.
NewWorker ==
    [pc |-> "fetch", body |-> NoBody, sentn |-> 0, sentr |-> 0, dones |-> 0,
     consumed |-> 0]

\* The aggregator holds no message.
NoWorker == <<0, 0>>

WorkerIds == {w \in IDs \X (1..(RetryLimit + 2)) : w[2] <= Len(workers[w[1]])}

W(w) == workers[w[1]][w[2]]

SetW(w, r) == [workers EXCEPT ![w[1]][w[2]] = r]

\* wg.Add(1)
WgAdd(c) == c + 1

\* wg.Done()
WgDone(c) == c - 1

\* The effect of a counter value reached by wg.Done on main: a counter of zero
\* releases main if it is blocked in wg.Wait, a negative one panics.
AfterDone(c) ==
    IF c < 0 THEN "panic"
    ELSE IF c = 0 /\ mainpc = "wait" THEN "woken"
    ELSE mainpc

\* parse: json.Unmarshal fails on a malformed body.
ParseOk(body) == body # BadBody

\* The key of `photos[photo.ID] = photo`.
StoreKey(photo) == photo.ID

\* A limit test that lets one more attempt through.
UnderLimitOffByOne(attempts) == attempts <= RetryLimit + 1

\* `node.Attempts <= 3`
UnderLimit(attempts) == attempts <= RetryLimit

Init ==
    /\ mainpc = "seed"
    /\ i = 0
    /\ wg = 0
    /\ nodes = [id \in IDs |-> 0]
    /\ workers = [id \in IDs |-> <<>>]
    /\ aggpc = "notstarted"
    /\ res = NoBody
    /\ node = 0
    /\ cur = NoWorker
    /\ photos = EmptyMap
    /\ reported = EmptyMap

----------------------------------------------------------------------------
\* main

\* One iteration of the seeding loop: wg.Add(1); go fetch(&Node{ids[i], 0}, ...).
Seed ==
    /\ mainpc = "seed"
    /\ i < Requests
    /\ wg' = WgAdd(wg)
    /\ workers' = [workers EXCEPT ![i + 1] = Append(@, NewWorker)]
    /\ i' = i + 1
    /\ UNCHANGED <<mainpc, nodes, aggpc, res, node, cur, photos, reported>>

\* photos := make(...); go func() {...}()
StartAggregator ==
    /\ mainpc = "seed"
    /\ i = Requests
    /\ aggpc' = "select"
    /\ mainpc' = "callwait"
    /\ UNCHANGED <<i, wg, nodes, workers, res, node, cur, photos, reported>>

\* main calls wg.Wait(): it returns at once on a zero counter, else main blocks.
CallWait ==
    /\ mainpc = "callwait"
    /\ mainpc' = IF wg = 0 THEN "print" ELSE "wait"
    /\ UNCHANGED <<i, wg, nodes, workers, aggpc, res, node, cur, photos, reported>>

\* main, released by the wg.Done that brought the counter to zero, runs again
\* inside wg.Wait.  sync.WaitGroup panics ("WaitGroup is reused before previous
\* Wait has returned") when an Add has raised the counter in between.
WaitReturn ==
    /\ mainpc = "woken"
    /\ mainpc' = IF wg # 0 THEN "panic" ELSE "print"
    /\ UNCHANGED <<i, wg, nodes, workers, aggpc, res, node, cur, photos, reported>>

\* print(&photos, &start), then main returns and the process ends.
PrintPhotos ==
    /\ mainpc = "print"
    /\ reported' = photos
    /\ mainpc' = "exit"
    /\ UNCHANGED <<i, wg, nodes, workers, aggpc, res, node, cur, photos>>

----------------------------------------------------------------------------
\* fetch

\* A fetch that counts its own failure: node.Attempts++ before `chn <- node`.
FetchFailsIncrements(w) ==
    /\ Running
    /\ W(w).pc = "fetch"
    /\ workers' = SetW(w, [W(w) EXCEPT !.pc = "sendN"])
    /\ nodes' = [nodes EXCEPT ![w[1]] = @ + 1]
    /\ UNCHANGED <<mainpc, i, wg, aggpc, res, node, cur, photos, reported>>

\* A fetch that retries by itself: on failure it starts its own successor
\* (wg.Add(1); go fetch(node)) before it sends the node.
FetchFailsRespawns(w) ==
    /\ Running
    /\ W(w).pc = "fetch"
    /\ wg' = WgAdd(wg)
    /\ workers' = [SetW(w, [W(w) EXCEPT !.pc = "sendN"])
                      EXCEPT ![w[1]] = Append(@, NewWorker)]
    /\ UNCHANGED <<mainpc, i, nodes, aggpc, res, node, cur, photos, reported>>

\* A failing fetch arrives at `chn <- node` (the three sends of lines 51, 59 and
\* 69 are the same statement on the same channel: one position, "sendN").
FetchFails(w) ==
    /\ Running
    /\ W(w).pc = "fetch"
    /\ workers' = SetW(w, [W(w) EXCEPT !.pc = "sendN"])
    /\ UNCHANGED <<mainpc, i, wg, nodes, aggpc, res, node, cur, photos, reported>>

\* Lines 48-53: http.NewRequestWithContext returns an error.
FetchRequestError(w) == FetchFails(w)

\* Lines 56-62: client.Do returns an error (the deadline included) or a status
\* other than 200.
FetchTransportError(w) == FetchFails(w)

\* Lines 66-72: io.ReadAll returns an error.
FetchReadError(w) == FetchFails(w)

\* Lines 48-74: the request succeeds and its body is read.
FetchSucceeds(w) ==
    /\ Running
    /\ W(w).pc = "fetch"
    /\ \E b \in Bodies(w[1]) :
         workers' = SetW(w, [W(w) EXCEPT !.pc = "send74", !.body = b])
    /\ UNCHANGED <<mainpc, i, wg, nodes, aggpc, res, node, cur, photos, reported>>

\* A fetch whose failure branch lacks its `return`: after wg.Done() it goes on
\* with the request.
WorkerDoneNoReturn(w) ==
    /\ Running
    /\ W(w).pc \in DonePcs
    /\ wg' = WgDone(wg)
    /\ workers' = SetW(w, [W(w) EXCEPT !.pc = IF @ = "doneN" THEN "fetch" ELSE "term",
                                       !.dones = @ + 1])
    /\ mainpc' = AfterDone(wg')
    /\ UNCHANGED <<i, nodes, aggpc, res, node, cur, photos, reported>>

\* wg.Done() after the send.
WorkerDone(w) ==
    /\ Running
    /\ W(w).pc \in DonePcs
    /\ wg' = WgDone(wg)
    /\ workers' = SetW(w, [W(w) EXCEPT !.pc = "term", !.dones = @ + 1])
    /\ mainpc' = AfterDone(wg')
    /\ UNCHANGED <<i, nodes, aggpc, res, node, cur, photos, reported>>

----------------------------------------------------------------------------
\* the aggregator goroutine

\* case res := <-chr, with the `chr <- &Response{...}` of goroutine w.
RecvResponse(w) ==
    /\ Running
    /\ aggpc = "select"
    /\ W(w).pc = "send74"
    /\ workers' = SetW(w, [W(w) EXCEPT !.pc = AfterSend(@), !.sentr = @ + 1])
    /\ res' = W(w).body
    /\ cur' = w
    /\ aggpc' = "res"
    /\ UNCHANGED <<mainpc, i, wg, nodes, node, photos, reported>>

\* case node := <-chn, with the `chn <- node` of goroutine w.
RecvNode(w) ==
    /\ Running
    /\ aggpc = "select"
    /\ W(w).pc = "sendN"
    /\ workers' = SetW(w, [W(w) EXCEPT !.pc = AfterSend(@), !.sentn = @ + 1])
    /\ node' = w[1]
    /\ cur' = w
    /\ aggpc' = "node"
    /\ UNCHANGED <<mainpc, i, wg, nodes, res, photos, reported>>

\* A success branch that retries the fetch when the body does not decode.
HandleResponseRetry ==
    /\ Running
    /\ aggpc = "res"
    /\ photos' = IF ParseOk(res) THEN MapPut(photos, StoreKey(res), res)
                 ELSE photos
    /\ IF ParseOk(res)
       THEN /\ wg' = wg
            /\ workers' = SetW(cur, [W(cur) EXCEPT !.consumed = @ + 1])
       ELSE /\ wg' = WgAdd(wg)
            /\ workers' = [SetW(cur, [W(cur) EXCEPT !.consumed = @ + 1])
                              EXCEPT ![cur[1]] = Append(@, NewWorker)]
    /\ aggpc' = "select"
    /\ res' = NoBody
    /\ cur' = NoWorker
    /\ UNCHANGED <<mainpc, i, nodes, node, reported>>

\* Lines 138-142: parse, and on success the store.
HandleResponse ==
    /\ Running
    /\ aggpc = "res"
    /\ photos' = IF ParseOk(res) THEN MapPut(photos, StoreKey(res), res)
                 ELSE photos
    /\ workers' = SetW(cur, [W(cur) EXCEPT !.consumed = @ + 1])
    /\ aggpc' = "select"
    /\ res' = NoBody
    /\ cur' = NoWorker
    /\ UNCHANGED <<mainpc, i, wg, nodes, node, reported>>

\* The store of line 142 while print reads the map: the Go runtime may end the
\* process with "fatal error: concurrent map read and map write".
MapRaceFatal ==
    /\ mainpc = "print"
    /\ aggpc = "res"
    /\ ParseOk(res)
    /\ mainpc' = "panic"
    /\ UNCHANGED <<i, wg, nodes, workers, aggpc, res, node, cur, photos, reported>>

\* A failure branch that respawns without wg.Add(1).
HandleNodeWithoutAdd ==
    /\ Running
    /\ aggpc = "node"
    /\ nodes' = [nodes EXCEPT ![node] = @ + 1]
    /\ wg' = wg
    /\ IF UnderLimit(nodes'[node])
       THEN workers' = [SetW(cur, [W(cur) EXCEPT !.consumed = @ + 1])
                           EXCEPT ![node] = Append(@, NewWorker)]
       ELSE workers' = SetW(cur, [W(cur) EXCEPT !.consumed = @ + 1])
    /\ aggpc' = "select"
    /\ node' = 0
    /\ cur' = NoWorker
    /\ UNCHANGED <<mainpc, i, res, photos, reported>>

\* Lines 144-149: node.Attempts++, and under the limit wg.Add(1); go fetch(node).
HandleNode ==
    /\ Running
    /\ aggpc = "node"
    /\ nodes' = [nodes EXCEPT ![node] = @ + 1]
    /\ IF UnderLimit(nodes'[node])
       THEN /\ wg' = WgAdd(wg)
            /\ workers' = [SetW(cur, [W(cur) EXCEPT !.consumed = @ + 1])
                              EXCEPT ![node] = Append(@, NewWorker)]
       ELSE /\ wg' = wg
            /\ workers' = SetW(cur, [W(cur) EXCEPT !.consumed = @ + 1])
    /\ aggpc' = "select"
    /\ node' = 0
    /\ cur' = NoWorker
    /\ UNCHANGED <<mainpc, i, res, photos, reported>>

\* No goroutine is blocked in a send on chr or chn.
NothingReady == \A w \in WorkerIds : W(w).pc \notin {"sendN", "send74"}

\* A default case that takes empty channels for the end of the work and leaves
\* the loop.
SelectDefaultReturns ==
    /\ Running
    /\ aggpc = "select"
    /\ NothingReady
    /\ aggpc' = "returned"
    /\ UNCHANGED <<mainpc, i, wg, nodes, workers, res, node, cur, photos, reported>>

\* The default case of the select.
SelectDefault ==
    /\ Running
    /\ aggpc = "select"
    /\ NothingReady
    /\ aggpc' = "default"
    /\ UNCHANGED <<mainpc, i, wg, nodes, workers, res, node, cur, photos, reported>>

\* `continue` of the default case: back to the select.
Continue ==
    /\ Running
    /\ aggpc = "default"
    /\ aggpc' = "select"
    /\ UNCHANGED <<mainpc, i, wg, nodes, workers, res, node, cur, photos, reported>>

----------------------------------------------------------------------------

Next ==
    \/ Seed
    \/ StartAggregator
    \/ CallWait
    \/ WaitReturn
    \/ PrintPhotos
    \/ \E w \in WorkerIds : FetchRequestError(w)
    \/ \E w \in WorkerIds : FetchTransportError(w)
    \/ \E w \in WorkerIds : FetchReadError(w)
    \/ \E w \in WorkerIds : FetchSucceeds(w)
    \/ \E w \in WorkerIds : WorkerDone(w)
    \/ \E w \in WorkerIds : RecvResponse(w)
    \/ \E w \in WorkerIds : RecvNode(w)
    \/ HandleResponse
    \/ MapRaceFatal
    \/ HandleNode
    \/ SelectDefault
    \/ Continue

Spec == Init /\ [][Next]_vars

\* The scheduler runs every goroutine that can take a step: main, the fetch
\* goroutines (whose requests end, by their deadline at the latest) and the
\* aggregator, whose select takes a ready case.
MainStep == Seed \/ StartAggregator \/ CallWait \/ WaitReturn \/ PrintPhotos

FairSpec ==
    /\ Spec
    /\ WF_vars(MainStep)
    /\ \A w \in IDs \X (1..(RetryLimit + 1)) :
         /\ WF_vars(w \in WorkerIds /\ (FetchFails(w) \/ FetchSucceeds(w)))
         /\ WF_vars(w \in WorkerIds /\ WorkerDone(w))
         /\ WF_vars(w \in WorkerIds /\ RecvResponse(w))
         /\ WF_vars(w \in WorkerIds /\ RecvNode(w))
    /\ WF_vars(HandleResponse)
    /\ WF_vars(HandleNode)
    /\ WF_vars(Continue)

----------------------------------------------------------------------------
\* Quantities the properties speak of.

RECURSIVE Sum(_, _)
Sum(f, S) == IF S = {} THEN 0
             ELSE LET x == CHOOSE y \in S : TRUE IN f[x] + Sum(f, S \ {x})

\* Goroutines started so far, by the seeding loop or by a respawn.
Spawned == Sum([id \in IDs |-> Len(workers[id])], IDs)

\* wg.Done calls made so far.
DoneCount == Sum([w \in WorkerIds |-> W(w).dones], WorkerIds)

\* Messages the aggregator has received and finished handling.
ConsumedCount == Sum([w \in WorkerIds |-> W(w).consumed], WorkerIds)

\* wg.Wait has returned in main: the reporting stage is released.
Completed == mainpc \in {"print", "exit"}

\* print has read the map and main has returned.
Reported == mainpc = "exit"

\* Goroutine w has delivered a response whose body decodes.
Succeeded(w) == W(w).sentr = 1 /\ ParseOk(W(w).body)

----------------------------------------------------------------------------
\* C1: once wg.Wait has returned in main, the counter is zero, every goroutine
\* started has ended with its message fully handled, and the aggregator holds
\* no message it has yet to handle (so no respawn is pending).
C1_CompletionOnlyWhenQuiescent ==
    Completed =>
        /\ wg = 0
        /\ \A w \in WorkerIds : W(w).pc = "term" /\ W(w).consumed = 1
        /\ aggpc \notin {"res", "node"}

\* C2: under fair scheduling main gets past wg.Wait to the reporting stage.
C2_ReachesReporting == <>Completed

\* C3: when main has printed, every identifier one of whose fetches delivered
\* a body that decodes is in the map print read, with that body's photo.
C3_SuccessIsReported ==
    Reported =>
        \A w \in WorkerIds :
            Succeeded(w) =>
                /\ w[1] \in DOMAIN reported
                /\ reported[w[1]] = W(w).body

\* Identifier id has had RetryLimit + 1 failures handled.
Exhausted(id) == nodes[id] > RetryLimit

\* C4: an identifier whose RetryLimit + 1 fetches all failed has had exactly
\* those RetryLimit + 1 goroutines, and is not a key of the map print read.
C4_ExhaustedIsAbsent ==
    \A id \in IDs :
        Exhausted(id) =>
            /\ Len(workers[id]) = RetryLimit + 1
            /\ Reported => id \notin DOMAIN reported

\* C5: the counter is the number of goroutines started less the number of
\* messages the aggregator has finished handling.
C5_CounterIsSpawnedMinusConsumed == wg = Spawned - ConsumedCount

\* C6: the counter is never negative: it is the number of goroutines started
\* (each registered by a wg.Add(1) before its `go`) less the wg.Done calls made.
C6_CounterNeverNegative ==
    /\ wg >= 0
    /\ wg = Spawned - DoneCount

\* A respawned goroutine has called wg.Done and the counter is back at zero.
C6_Witness ==
    /\ wg = 0
    /\ \E w \in WorkerIds : w[2] > 1 /\ W(w).dones = 1

\* C7: a fetch goroutine sends one message, on chn when its fetch failed and on
\* chr when it read a body, calls wg.Done once, after the send, and ends; it
\* never goes back to fetching once it has sent.
C7_OneMessageThenDone ==
    \A w \in WorkerIds :
        LET r == W(w) IN
        /\ r.sentn + r.sentr <= 1
        /\ r.dones <= 1
        /\ r.pc \in {"fetch", "sendN", "send74"} => r.sentn + r.sentr = 0 /\ r.dones = 0
        /\ r.pc = "doneN" => r.sentn = 1 /\ r.sentr = 0 /\ r.dones = 0
        /\ r.pc = "done80" => r.sentn = 0 /\ r.sentr = 1 /\ r.dones = 0
        /\ r.pc = "term" => r.sentn + r.sentr = 1 /\ r.dones = 1
        /\ r.sentn = 1 => r.body = NoBody
        /\ r.sentr = 1 => r.body # NoBody

\* One goroutine has ended after a send on chn and another after a send on chr.
C7_Witness ==
    \E w1, w2 \in WorkerIds :
        /\ W(w1).pc = "term" /\ W(w1).sentn = 1
        /\ W(w2).pc = "term" /\ W(w2).sentr = 1

\* The first fetch for id read a body that does not decode.
MalformedFirst(id) == Len(workers[id]) >= 1 /\ workers[id][1].body = BadBody

\* The aggregator ends its handling of a response that does not decode.
DropsMalformed == aggpc = "res" /\ ~ParseOk(res) /\ aggpc' # "res"

C8_Scenario ==
    /\ \A id \in IDs : MalformedFirst(id) => Len(workers[id]) = 1 /\ nodes[id] = 0
    /\ (\A id \in IDs : MalformedFirst(id)) => photos = EmptyMap /\ reported = EmptyMap

\* C8: handling a response whose body does not decode changes neither the map
\* nor an attempt counter nor the counter of the WaitGroup and starts no
\* goroutine; so an identifier whose first body does not decode gets no second
\* fetch, and when that is so for every identifier the map stays empty.
C8_ParseFailureIsSilent ==
    /\ []C8_Scenario
    /\ [][DropsMalformed =>
            /\ photos' = photos
            /\ nodes' = nodes
            /\ wg' = wg
            /\ \A id \in IDs : Len(workers'[id]) = Len(workers[id])]_vars

\* Every identifier's only body did not decode, all were handled, main printed.
C8_Witness ==
    /\ Reported
    /\ \A id \in IDs : MalformedFirst(id) /\ workers[id][1].consumed = 1

\* Every fetch so far succeeded with the photo asked for.
AlwaysSucceed ==
    \A w \in WorkerIds : W(w).pc # "fetch" => W(w).body = Photo(w[1], w[1])

\* C9: when every fetch succeeds with the photo asked for, print reads the same
\* map in every run: the one holding each identifier's photo.
C9_SameStoreEveryRun ==
    (Reported /\ AlwaysSucceed) => reported = [id \in IDs |-> Photo(id, id)]

\* C10: no message is handled twice, and when wg.Wait has returned the
\* aggregator has handled the message of every goroutine started.
C10_EveryOutcomeConsumedOnce ==
    /\ \A w \in WorkerIds : W(w).consumed <= 1
    /\ Completed => \A w \in WorkerIds : W(w).consumed = 1

\* The failed nodes of identifier id that the aggregator has finished handling.
FailuresHandled(id) ==
    {w \in WorkerIds : w[1] = id /\ W(w).sentn = 1 /\ W(w).consumed = 1}

C11_Count == \A id \in IDs : nodes[id] = Cardinality(FailuresHandled(id))

\* C11: node.Attempts is the number of failed nodes of that identifier the
\* aggregator has handled, and it changes only in the step in which the
\* aggregator handles a node it received, by one, for that node.
C11_AttemptsCountHandledFailures ==
    /\ []C11_Count
    /\ [][\A id \in IDs :
            nodes'[id] # nodes[id] =>
                /\ aggpc = "node"
                /\ node = id
                /\ nodes'[id] = nodes[id] + 1]_vars

\* An identifier has used all its attempts: four failures handled.
C11_Witness == \E id \in IDs : nodes[id] = RetryLimit + 1

\* The fetch goroutines of identifier id whose attempt is under way: fetching,
\* or blocked in the send of their outcome.
Attempting(id) ==
    {k \in 1..Len(workers[id]) : workers[id][k].pc \in {"fetch", "sendN", "send74"}}

\* C12: the attempts for one identifier follow one another: a goroutine of the
\* identifier has a successor only once its node has been received on chn and
\* handled by the aggregator, so at most one attempt per identifier is under
\* way.
C12_AttemptsAreSequential ==
    \A id \in IDs :
        /\ \A k \in 1..(Len(workers[id]) - 1) :
              workers[id][k].sentn = 1 /\ workers[id][k].consumed = 1
        /\ Cardinality(Attempting(id)) <= 1

\* A respawned goroutine is fetching while its predecessor, whose node was
\* handled, has not yet called wg.Done.
C12_Witness ==
    \E id \in IDs :
        /\ Len(workers[id]) = 2
        /\ workers[id][1].pc = "doneN"
        /\ workers[id][2].pc = "fetch"

\* C13, as stated: no identifier ever has more than RetryLimit goroutines
\* (the seeded one and the respawns).
C13_AtMostLimitAttempts == \A id \in IDs : Len(workers[id]) <= RetryLimit

\* C13, amended: no identifier ever has more than RetryLimit + 1 goroutines:
\* the seeded one and at most RetryLimit respawns.
C13_AtMostLimitRetries == \A id \in IDs : Len(workers[id]) <= RetryLimit + 1

\* An identifier has its fourth goroutine, started after three failures.
C13_Witness ==
    \E id \in IDs : Len(workers[id]) = RetryLimit + 1 /\ nodes[id] = RetryLimit

\* The fetch goroutines of identifier id that read a body (a Success outcome).
Successes(id) == {k \in 1..Len(workers[id]) : workers[id][k].body # NoBody}

C14_OneSuccess ==
    \A id \in IDs :
        /\ Cardinality(Successes(id)) <= 1
        /\ \A k \in Successes(id) : k = Len(workers[id])

\* C14: an identifier has at most one Success outcome and no goroutine is
\* started for it afterwards; and an entry of the map, once written, is
\* neither written again nor removed.
C14_EntryWrittenOnce ==
    /\ []C14_OneSuccess
    /\ [][\A k \in DOMAIN photos :
            k \in DOMAIN photos' /\ photos'[k] = photos[k]]_vars

\* C15: every key of the map is the identifier of a seeded item one of whose
\* fetches delivered a body that decodes, and the entry is that body's photo.
C15_KeyIsItemIdentifier ==
    \A k \in DOMAIN photos :
        /\ k \in IDs
        /\ \E w \in WorkerIds :
              w[1] = k /\ Succeeded(w) /\ photos[k] = W(w).body

\* What the aggregator's steps may change besides its own position.
AggEffects == <<mainpc, i, wg, nodes, workers, photos, reported>>

\* C16: the aggregator leaves its select without a message only by the default
\* case, only when no goroutine is blocked in a send, and that step and the
\* `continue` after it change neither the map, the counter, an Attempts field,
\* a goroutine nor main's position (completion is not signaled); from the
\* default case the aggregator goes back to the select.
C16_DefaultChangesNothing ==
    /\ [][(aggpc = "select" /\ aggpc' \notin {"select", "res", "node"}) =>
            /\ aggpc' = "default"
            /\ NothingReady
            /\ UNCHANGED AggEffects]_vars
    /\ [][(aggpc = "default" /\ aggpc' # "default") =>
            /\ aggpc' = "select"
            /\ UNCHANGED AggEffects]_vars

\* The aggregator is in the default case, both channels empty, while main is
\* blocked in wg.Wait and a fetch is still under way.
C16_Witness ==
    /\ aggpc = "default"
    /\ mainpc = "wait"
    /\ wg > 0
    /\ \E w \in WorkerIds : W(w).pc = "fetch"

\* C17: the map is written only by the aggregator, in its response branch, and
\* never once wg.Wait has returned in main (while or after print reads it).
C17_NoWriteAfterCompletion ==
    [][photos' # photos => (aggpc = "res" /\ ~Completed)]_vars

====
